---- MODULE Spec2Model ----
(***************************************************************************)
(* Model of colour/colorimetry/luminance.py: the three luminance formulas, *)
(* the LUMINANCE_FUNCTIONS registry and the get_luminance dispatcher.      *)
(*                                                                         *)
(* Python floats are modelled as exact rationals num/den over unbounded    *)
(* integers (limb sequences), so the formulas are computed term by term as *)
(* the source writes them, without the rounding of IEEE doubles.           *)
(***************************************************************************)
EXTENDS Integers, Sequences, FiniteSets

(***************************************************************************)
(* Unbounded naturals: little-endian sequences of limbs in 0..Base-1, with *)
(* no most-significant zero limb; zero is the empty sequence.              *)
(***************************************************************************)
Base == 100 * 100

RECURSIVE NStrip(_)
NStrip(a) ==
  IF a = <<>> THEN <<>>
  ELSE IF a[Len(a)] = 0 THEN NStrip(SubSeq(a, 1, Len(a) - 1))
  ELSE a

RECURSIVE NFromInt(_)
NFromInt(n) ==
  IF n = 0 THEN <<>> ELSE <<n % Base>> \o NFromInt(n \div Base)

RECURSIVE NAddC(_, _, _)
NAddC(a, b, c) ==
  IF a = <<>> /\ b = <<>> THEN (IF c = 0 THEN <<>> ELSE <<c>>)
  ELSE LET x == IF a = <<>> THEN 0 ELSE Head(a)
           y == IF b = <<>> THEN 0 ELSE Head(b)
           s == x + y + c
           ta == IF a = <<>> THEN <<>> ELSE Tail(a)
           tb == IF b = <<>> THEN <<>> ELSE Tail(b)
       IN  <<s % Base>> \o NAddC(ta, tb, s \div Base)

NAdd(a, b) == NAddC(a, b, 0)

\* a - b for a >= b
RECURSIVE NSubB(_, _, _)
NSubB(a, b, c) ==
  IF a = <<>> THEN <<>>
  ELSE LET y == IF b = <<>> THEN 0 ELSE Head(b)
           d == Head(a) - y - c
           tb == IF b = <<>> THEN <<>> ELSE Tail(b)
       IN  IF d < 0 THEN <<d + Base>> \o NSubB(Tail(a), tb, 1)
           ELSE <<d>> \o NSubB(Tail(a), tb, 0)

NSub(a, b) == NStrip(NSubB(a, b, 0))

\* -1, 0, 1 as a < b, a = b, a > b
RECURSIVE NCmpAt(_, _, _)
NCmpAt(a, b, i) ==
  IF i = 0 THEN 0
  ELSE IF a[i] < b[i] THEN -1
  ELSE IF a[i] > b[i] THEN 1
  ELSE NCmpAt(a, b, i - 1)

NCmp(a, b) ==
  IF Len(a) < Len(b) THEN -1
  ELSE IF Len(a) > Len(b) THEN 1
  ELSE NCmpAt(a, b, Len(a))

\* a * k for a limb k in 0..Base-1
RECURSIVE NMulSmallC(_, _, _)
NMulSmallC(a, k, c) ==
  IF a = <<>> THEN (IF c = 0 THEN <<>> ELSE <<c>>)
  ELSE LET p == Head(a) * k + c
       IN  <<p % Base>> \o NMulSmallC(Tail(a), k, p \div Base)

NMulSmall(a, k) == IF k = 0 THEN <<>> ELSE NMulSmallC(a, k, 0)

RECURSIVE NMul(_, _)
NMul(a, b) ==
  IF a = <<>> \/ b = <<>> THEN <<>>
  ELSE LET rest == NMul(a, Tail(b))
           shifted == IF rest = <<>> THEN <<>> ELSE <<0>> \o rest
       IN  NAdd(NMulSmall(a, Head(b)), shifted)

\* a \div k for a small k
RECURSIVE NDivSmallFrom(_, _, _, _)
NDivSmallFrom(a, k, i, r) ==
  IF i = 0 THEN <<>>
  ELSE LET cur == r * Base + a[i]
       IN  NDivSmallFrom(a, k, i - 1, cur % k) \o <<cur \div k>>

NDivSmall(a, k) == NStrip(NDivSmallFrom(a, k, Len(a), 0))

(***************************************************************************)
(* Signed integers <<sign, magnitude>>, sign in {1, -1}; zero is <<1, <<>>>>*)
(***************************************************************************)
ZMake(s, m) == IF m = <<>> THEN <<1, <<>>>> ELSE <<s, m>>

ZFromInt(n) == IF n < 0 THEN <<-1, NFromInt(-n)>> ELSE <<1, NFromInt(n)>>

ZNeg(x) == ZMake(-x[1], x[2])

ZAdd(x, y) ==
  IF x[1] = y[1] THEN ZMake(x[1], NAdd(x[2], y[2]))
  ELSE IF NCmp(x[2], y[2]) >= 0 THEN ZMake(x[1], NSub(x[2], y[2]))
  ELSE ZMake(y[1], NSub(y[2], x[2]))

ZMul(x, y) == ZMake(x[1] * y[1], NMul(x[2], y[2]))

\* -1, 0, 1 as x < y, x = y, x > y
ZCmp(x, y) ==
  IF x[1] # y[1] THEN (IF x[1] < y[1] THEN -1 ELSE 1)
  ELSE x[1] * NCmp(x[2], y[2])

(***************************************************************************)
(* Rationals <<num, den>>: num signed, den a positive natural.  Common     *)
(* factors of ten are cancelled to keep the decimal literals short; the    *)
(* value, not the representation, is what REq and RLess compare.           *)
(***************************************************************************)
RECURSIVE RReduce(_)
RReduce(x) ==
  IF x[1][2] = <<>> THEN <<x[1], <<1>>>>
  ELSE IF x[1][2][1] % 10 = 0 /\ x[2][1] % 10 = 0
       THEN RReduce(<<ZMake(x[1][1], NDivSmall(x[1][2], 10)), NDivSmall(x[2], 10)>>)
  ELSE x

\* the rational n/d of two machine integers, d > 0
Rat(n, d) == RReduce(<<ZFromInt(n), NFromInt(d)>>)

RNeg(x) == <<ZNeg(x[1]), x[2]>>

RAdd(x, y) ==
  IF x[2] = y[2] THEN RReduce(<<ZAdd(x[1], y[1]), x[2]>>)
  ELSE RReduce(<<ZAdd(ZMul(x[1], <<1, y[2]>>), ZMul(y[1], <<1, x[2]>>)),
                 NMul(x[2], y[2])>>)

RSub(x, y) == RAdd(x, RNeg(y))

RMul(x, y) == RReduce(<<ZMul(x[1], y[1]), NMul(x[2], y[2])>>)

\* x / y for y # 0
RDiv(x, y) ==
  RReduce(<<ZMake(x[1][1] * y[1][1], NMul(x[1][2], y[2])), NMul(x[2], y[1][2])>>)

RECURSIVE RPow(_, _)
RPow(x, k) == IF k = 0 THEN Rat(1, 1) ELSE RMul(x, RPow(x, k - 1))

RCmp(x, y) == ZCmp(ZMul(x[1], <<1, y[2]>>), ZMul(y[1], <<1, x[2]>>))

REq(x, y) == RCmp(x, y) = 0

RLess(x, y) == RCmp(x, y) < 0

RIsZero(x) == x[1][2] = <<>>

(***************************************************************************)
(* Python values: None is <<>>, any other value v is <<v>>.  An actual     *)
(* argument is Omitted or Passed(v); Bind gives the parameter its default. *)
(***************************************************************************)
None == <<>>

Some(v) == <<v>>

Omitted == <<>>

Passed(v) == <<v>>

Bind(arg, default) == IF arg = Omitted THEN default ELSE arg[1]

\* what a call ends in: a returned luminance or a raised exception; branch
\* records which arm of get_luminance's conditional ran ("" outside it)
Returned(y, b) == [Y |-> Some(y), exc |-> None, branch |-> b]

Raised(e, b) == [Y |-> None, exc |-> Some(e), branch |-> b]

(***************************************************************************)
(* colour.constants                                                        *)
(***************************************************************************)
CIE_E == Rat(216, 24389)

CIE_K == Rat(24389, 27)

(***************************************************************************)
(* The formulas                                                            *)
(***************************************************************************)
luminance_newhall1943(V) ==
  RAdd(RSub(RAdd(RSub(RMul(Rat(12219, 10000), V),
                      RMul(Rat(23111, 100000), RMul(V, V))),
                 RMul(Rat(23951, 100000), RPow(V, 3))),
            RMul(Rat(21009, 1000000), RPow(V, 4))),
       RMul(Rat(8404, 10000000), RPow(V, 5)))

Yn_default == Rat(100, 1)

\* slip: the reference white inside the cube
Y1976CubicYnInside(L, Yn) ==
  RPow(RMul(RDiv(RAdd(L, Rat(16, 1)), Rat(116, 1)), Yn), 3)

\* slip: a square for the cube
Y1976CubicSquared(L, Yn) ==
  RMul(RPow(RDiv(RAdd(L, Rat(16, 1)), Rat(116, 1)), 2), Yn)

Y1976Cubic(L, Yn) == RMul(RPow(RDiv(RAdd(L, Rat(16, 1)), Rat(116, 1)), 3), Yn)

Y1976Linear(L, Yn) == RMul(RDiv(L, CIE_K), Yn)

\* slip: the knee taken at CIE_E instead of CIE_K * CIE_E
luminance_1976_KneeAtE(L, Yn) ==
  IF RLess(CIE_E, L) THEN Y1976Cubic(L, Yn) ELSE Y1976Linear(L, Yn)

luminance_1976(L, Yn) ==
  IF RLess(RMul(CIE_K, CIE_E), L) THEN Y1976Cubic(L, Yn) ELSE Y1976Linear(L, Yn)

luminance_ASTM_D1535_08(V) ==
  RAdd(RSub(RAdd(RSub(RMul(Rat(11914, 10000), V),
                      RMul(Rat(22533, 100000), RMul(V, V))),
                 RMul(Rat(23352, 100000), RPow(V, 3))),
            RMul(Rat(20484, 1000000), RPow(V, 4))),
       RMul(Rat(81939, 100000000), RPow(V, 5)))

(***************************************************************************)
(* The registry and the dispatcher                                         *)
(***************************************************************************)
VARIABLES LUMINANCE_FUNCTIONS, call, result

vars == <<LUMINANCE_FUNCTIONS, call, result>>

MethodNames == {"Luminance Newhall 1943", "Luminance 1976", "Luminance ASTM D1535-08"}

RegistryLiteral ==
  [k \in MethodNames |->
     CASE k = "Luminance Newhall 1943" -> "luminance_newhall1943"
       [] k = "Luminance 1976" -> "luminance_1976"
       [] k = "Luminance ASTM D1535-08" -> "luminance_ASTM_D1535_08"]

\* f(LV): a call of a function object with one positional argument
CallOneArg(f, LV) ==
  CASE f = "luminance_newhall1943" -> luminance_newhall1943(LV)
    [] f = "luminance_1976" -> luminance_1976(LV, Yn_default)
    [] f = "luminance_ASTM_D1535_08" -> luminance_ASTM_D1535_08(LV)

\* slip: d.get(key, luminance_1976), a default for an absent key
DictGetWithDefault(d, key) ==
  IF key # None /\ key[1] \in DOMAIN d THEN Some(d[key[1]])
  ELSE Some("luminance_1976")

\* d.get(key): the value under key, None when key is absent
DictGet(d, key) ==
  IF key # None /\ key[1] \in DOMAIN d THEN Some(d[key[1]]) ELSE None

\* slip: d.setdefault(key), which stores None under an absent key
DictAfterSetDefault(d, key) ==
  IF key # None /\ key[1] \notin DOMAIN d
  THEN [k \in DOMAIN d \cup {key[1]} |-> IF k \in DOMAIN d THEN d[k] ELSE "None"]
  ELSE d

\* d after d.get(key): a lookup stores nothing
DictAfterGet(d, key) == d

\* fopt(LV): calling None raises TypeError
Invoke(fopt, LV, b) ==
  IF fopt = None THEN Raised("TypeError", b)
  ELSE Returned(CallOneArg(fopt[1], LV), b)

\* slip: the registry arm passes Yn on to luminance_1976
get_luminance_ThreadsYn(LV, Yn, method) ==
  IF Yn = None \/ method # None
  THEN IF Yn # None /\ method = Some("Luminance 1976")
       THEN Returned(luminance_1976(LV, Yn[1]), "registry")
       ELSE Invoke(DictGet(LUMINANCE_FUNCTIONS, method), LV, "registry")
  ELSE Returned(luminance_1976(LV, Yn[1]), "direct")

\* slip: the direct arm drops Yn
get_luminance_DirectDropsYn(LV, Yn, method) ==
  IF Yn = None \/ method # None
  THEN Invoke(DictGet(LUMINANCE_FUNCTIONS, method), LV, "registry")
  ELSE Returned(luminance_1976(LV, Yn_default), "direct")

\* slip: method None stands for the default method
get_luminance_NoneIsDefault(LV, Yn, method) ==
  IF Yn = None \/ method # None
  THEN Invoke(DictGet(LUMINANCE_FUNCTIONS,
                      IF method = None THEN Some("Luminance 1976") ELSE method),
              LV, "registry")
  ELSE Returned(luminance_1976(LV, Yn[1]), "direct")

get_luminance(LV, Yn, method) ==
  IF Yn = None \/ method # None
  THEN Invoke(DictGet(LUMINANCE_FUNCTIONS, method), LV, "registry")
  ELSE Returned(luminance_1976(LV, Yn[1]), "direct")

(***************************************************************************)
(* Inputs                                                                  *)
(***************************************************************************)
MaxLV == 12

MaxYn == 3

\* the docstrings' example arguments 3.74629715382 and 37.9856290977
DocLV == RAdd(Rat(3746297, 1000000), RMul(Rat(15382, 100000), Rat(1, 1000000)))

DocL == RAdd(Rat(37985629, 1000000), RMul(Rat(977, 10000), Rat(1, 1000000)))

LVals == {Rat(k, 2) : k \in -2 .. 2 * MaxLV} \cup {DocLV, DocL, Rat(100, 1)}

YnVals == {Rat(k, 2) : k \in 0 .. MaxYn} \cup {Yn_default}

YnArgs == {Omitted, Passed(None)} \cup {Passed(Some(y)) : y \in YnVals}

MethodArgs ==
  {Omitted, Passed(None), Passed(Some("unknown"))}
    \cup {Passed(Some(m)) : m \in MethodNames}

\* no call in progress: the caller holds no frame and no result
NoCall == [fn |-> "", LV |-> Rat(0, 1), Yn |-> None, method |-> None,
           omitted |-> {}]

NoResult == [Y |-> None, exc |-> None, branch |-> ""]

Init ==
  /\ LUMINANCE_FUNCTIONS = RegistryLiteral
  /\ call = NoCall
  /\ result = NoResult

Call_luminance_newhall1943 ==
  /\ call = NoCall
  /\ \E V \in LVals :
    /\ call' = [fn |-> "luminance_newhall1943", LV |-> V, Yn |-> None,
                method |-> None, omitted |-> {}]
    /\ result' = Returned(luminance_newhall1943(V), "")
    /\ UNCHANGED LUMINANCE_FUNCTIONS

Call_luminance_1976 ==
  /\ call = NoCall
  /\ \E L \in LVals, aYn \in {Omitted} \cup {Passed(y) : y \in YnVals} :
    LET Yn == Bind(aYn, Yn_default) IN
    /\ call' = [fn |-> "luminance_1976", LV |-> L, Yn |-> Some(Yn),
                method |-> None,
                omitted |-> IF aYn = Omitted THEN {"Yn"} ELSE {}]
    /\ result' = Returned(luminance_1976(L, Yn), "")
    /\ UNCHANGED LUMINANCE_FUNCTIONS

Call_luminance_ASTM_D1535_08 ==
  /\ call = NoCall
  /\ \E V \in LVals :
    /\ call' = [fn |-> "luminance_ASTM_D1535_08", LV |-> V, Yn |-> None,
                method |-> None, omitted |-> {}]
    /\ result' = Returned(luminance_ASTM_D1535_08(V), "")
    /\ UNCHANGED LUMINANCE_FUNCTIONS

Call_get_luminance ==
  /\ call = NoCall
  /\ \E LV \in LVals, aYn \in YnArgs, aMethod \in MethodArgs :
    LET Yn == Bind(aYn, Some(Yn_default))
        method == Bind(aMethod, Some("Luminance 1976"))
    IN
    /\ call' = [fn |-> "get_luminance", LV |-> LV, Yn |-> Yn,
                method |-> method,
                omitted |-> (IF aYn = Omitted THEN {"Yn"} ELSE {})
                              \cup (IF aMethod = Omitted THEN {"method"} ELSE {})]
    /\ result' = get_luminance(LV, Yn, method)
    /\ LUMINANCE_FUNCTIONS' =
         IF Yn = None \/ method # None
         THEN DictAfterGet(LUMINANCE_FUNCTIONS, method)
         ELSE LUMINANCE_FUNCTIONS

\* the call's frame ends: the caller has consumed the value or the exception
Discard ==
  /\ call # NoCall
  /\ call' = NoCall
  /\ result' = NoResult
  /\ UNCHANGED LUMINANCE_FUNCTIONS

Next ==
  \/ Call_luminance_newhall1943
  \/ Call_luminance_1976
  \/ Call_luminance_ASTM_D1535_08
  \/ Call_get_luminance
  \/ Discard

Spec == Init /\ [][Next]_vars

(***************************************************************************)
(* Properties                                                              *)
(***************************************************************************)
IsGet == call.fn = "get_luminance"

Is1976 == call.fn = "luminance_1976"

Knee == RMul(CIE_K, CIE_E)

Approx(x, y, tol) == ~RLess(tol, RSub(x, y)) /\ ~RLess(tol, RSub(y, x))

FormulaOf(m, LV) ==
  CASE m = "Luminance Newhall 1943" -> luminance_newhall1943(LV)
    [] m = "Luminance 1976" -> luminance_1976(LV, Rat(100, 1))
    [] m = "Luminance ASTM D1535-08" -> luminance_ASTM_D1535_08(LV)

\* C1: get_luminance with a method that is a registry key returns the
\* registered formula applied to LV alone, whatever Yn is (None or a number);
\* for "Luminance 1976" that is luminance_1976(LV) with its own Yn = 100.
C1_RegistryDispatchIgnoresYn ==
  (IsGet /\ call.method # None /\ call.method[1] \in MethodNames) =>
    /\ result.exc = None
    /\ result.Y # None
    /\ REq(result.Y[1], FormulaOf(call.method[1], call.LV))

C1_Witness ==
  /\ IsGet
  /\ call.method = Some("Luminance 1976")
  /\ call.Yn # None
  /\ call.Yn # Some(Yn_default)
  /\ result.Y # None
  /\ REq(result.Y[1], luminance_1976(call.LV, Rat(100, 1)))
  /\ ~REq(result.Y[1], luminance_1976(call.LV, call.Yn[1]))

\* C2: get_luminance with a method string that is no registry key ends in an
\* error (TypeError from calling the None the lookup gave); it returns no
\* luminance and uses no default formula.
C2_UnknownMethodFails ==
  (IsGet /\ call.method # None /\ call.method[1] \notin MethodNames) =>
    /\ result.exc = Some("TypeError")
    /\ result.Y = None

C2_Witness ==
  /\ IsGet
  /\ call.method = Some("unknown")
  /\ call.Yn # None
  /\ result.exc = Some("TypeError")
  /\ result.Y = None

\* C3: get_luminance(3.74629715382) with Yn and method left to their
\* defaults takes the registry arm and returns about 37.9856290977.
C3_DocExampleValue ==
  (IsGet /\ call.LV = DocLV /\ call.omitted = {"Yn", "method"}) =>
    /\ result.branch = "registry"
    /\ result.Y # None
    /\ Approx(result.Y[1], DocL, Rat(1, 1000))

\* C4: get_luminance takes the direct arm exactly when Yn is not None and
\* method is None, and then returns luminance_1976(LV, Yn) with the caller's Yn.
C4_DirectArm ==
  IsGet =>
    /\ (result.branch = "direct") <=> (call.Yn # None /\ call.method = None)
    /\ (result.branch = "direct") =>
         /\ result.Y # None
         /\ REq(result.Y[1], luminance_1976(call.LV, call.Yn[1]))

C4_Witness ==
  /\ IsGet
  /\ result.branch = "direct"
  /\ call.Yn # None
  /\ call.method = None
  /\ result.Y # None
  /\ ~REq(result.Y[1], luminance_1976(call.LV, Rat(100, 1)))

\* C5: luminance_1976(L, Yn) is ((L + 16) / 116)^3 * Yn when L > CIE_K * CIE_E
\* and (L / CIE_K) * Yn otherwise (at the knee and for L <= 0 too); an omitted
\* Yn is 100.
C5_Piecewise1976 ==
  Is1976 =>
    LET L == call.LV
        Yn == IF "Yn" \in call.omitted THEN Rat(100, 1) ELSE call.Yn[1]
    IN  /\ result.Y # None
        /\ IF RLess(RMul(CIE_K, CIE_E), L)
           THEN REq(result.Y[1],
                    RMul(RPow(RDiv(RAdd(L, Rat(16, 1)), Rat(116, 1)), 3), Yn))
           ELSE REq(result.Y[1], RMul(RDiv(L, CIE_K), Yn))

C5_Witness ==
  /\ Is1976
  /\ REq(call.LV, Knee)
  /\ "Yn" \in call.omitted
  /\ result.Y # None
  /\ REq(result.Y[1], RMul(RDiv(call.LV, CIE_K), Rat(100, 1)))

\* C6: with CIE_E = 216/24389 and CIE_K = 24389/27 the knee is L = 8, and the
\* value luminance_1976 returns there (the linear arm's) is the cubic arm's
\* value at the same L, for every Yn.
C6_ContinuousAtKnee ==
  /\ REq(Knee, Rat(8, 1))
  /\ (Is1976 /\ REq(call.LV, Knee)) =>
       /\ result.Y # None
       /\ REq(result.Y[1], Y1976Linear(call.LV, call.Yn[1]))
       /\ REq(result.Y[1], Y1976Cubic(call.LV, call.Yn[1]))

C6_Witness ==
  /\ Is1976
  /\ REq(call.LV, Knee)
  /\ call.Yn = Some(Rat(3, 2))
  /\ result.Y # None
  /\ ~RIsZero(result.Y[1])

\* C7: luminance_1976(L, Yn) = luminance_1976(L, 1.0) * Yn for all L and Yn.
C7_ScalesWithYn ==
  Is1976 =>
    /\ result.Y # None
    /\ REq(result.Y[1], RMul(luminance_1976(call.LV, Rat(1, 1)), call.Yn[1]))

C7_Witness ==
  /\ Is1976
  /\ RLess(Knee, call.LV)
  /\ call.Yn = Some(Rat(3, 2))
  /\ result.Y # None
  /\ ~REq(result.Y[1], luminance_1976(call.LV, Rat(1, 1)))

\* C8: in every reachable state LUMINANCE_FUNCTIONS holds exactly the three
\* documented keys, each bound to the function of the same name; no call,
\* failing ones included, adds, removes or rebinds an entry.
C8_RegistryUnchanged ==
  /\ DOMAIN LUMINANCE_FUNCTIONS =
       {"Luminance Newhall 1943", "Luminance 1976", "Luminance ASTM D1535-08"}
  /\ LUMINANCE_FUNCTIONS["Luminance Newhall 1943"] = "luminance_newhall1943"
  /\ LUMINANCE_FUNCTIONS["Luminance 1976"] = "luminance_1976"
  /\ LUMINANCE_FUNCTIONS["Luminance ASTM D1535-08"] = "luminance_ASTM_D1535_08"

C8_Witness ==
  /\ IsGet
  /\ call.method = Some("unknown")
  /\ result.exc # None
  /\ Cardinality(DOMAIN LUMINANCE_FUNCTIONS) = 3

\* C9: for every Munsell value V in [0, 10], luminance_newhall1943(V) lies in
\* [0, 100].
C9_NewhallRange ==
  (/\ call.fn = "luminance_newhall1943"
   /\ ~RLess(call.LV, Rat(0, 1))
   /\ ~RLess(Rat(10, 1), call.LV)) =>
    /\ result.Y # None
    /\ ~RLess(result.Y[1], Rat(0, 1))
    /\ ~RLess(Rat(100, 1), result.Y[1])

\* C10: get_luminance with Yn = None and method = None takes the registry
\* arm, the lookup of None gives no callable and the call ends in an error,
\* with no fallback to luminance_1976.
C10_BothNoneFails ==
  (IsGet /\ call.Yn = None /\ call.method = None) =>
    /\ result.branch = "registry"
    /\ result.exc = Some("TypeError")
    /\ result.Y = None

C10_Witness ==
  /\ IsGet
  /\ call.Yn = None
  /\ call.method = None
  /\ result.branch = "registry"
  /\ result.exc # None
====
